---- MODULE Spec2Model ----
(***************************************************************************)
(* Model of balance_snapshotter:                                           *)
(*   src/src/balance_snapshotter/__init__.py   (val, Token,                *)
(*       BalanceSnapshotter, Balances)                                     *)
(*   src/src/balance_snapshotter/token_data.py (TokenData)                 *)
(*                                                                         *)
(* Spec      : one BalanceSnapshotter driven by a single caller, the       *)
(*             chain changing underneath it.                               *)
(* CacheSpec : one TokenData cache used sequentially.                      *)
(* ConcSpec  : the same cache called from several threads at once.         *)
(***************************************************************************)
EXTENDS Integers, Sequences, FiniteSets, TLC

VARIABLES
    tokens,         \* BalanceSnapshotter.tokens   (list)
    accounts,       \* BalanceSnapshotter.accounts (list)
    snaps,          \* BalanceSnapshotter.snaps    (list of {"name","balances"})
    balance_event,  \* BalanceSnapshotter.balance_event (is_set)
    pc,             \* where the caller of the engine is
    path,           \* how snap() started the coroutine
    taskState,      \* state of the _async_take_snapshot coroutine
    snapName,       \* the `name` argument of the snap() call in progress
    pending,        \* set_balance coroutines of the batch that have not run
    failed,         \* what a set_balance coroutine of the batch raised, or "none"
    balances,       \* the local Balances() of _async_take_snapshot
    returned,       \* what balanceOf returned to each set_balance (history)
    chain,          \* the chain's balanceOf, per (token address, account)
    result,         \* outcome of the caller's last finished call
    quiet,          \* latest snaps gathered with no change in between (history)
    tainted,        \* chain or lists changed during the current call (history)
    metadataReads,  \* name/symbol/decimals reads made by Token.__init__ (history)
    data,           \* TokenData.data
    fetches,        \* remote metadata fetches per token address (history)
    attempts,       \* fetches begun, failed ones included (history)
    cacheResult,    \* outcome of the last TokenData call
    callers         \* where each concurrent caller of TokenData is

engineVars == <<tokens, accounts, snaps, balance_event, pc, path, taskState,
                snapName, pending, failed, balances, returned, chain, result,
                quiet, tainted, metadataReads>>
cacheVars == <<data, fetches, attempts, cacheResult, callers>>
vars == <<tokens, accounts, snaps, balance_event, pc, path, taskState,
          snapName, pending, failed, balances, returned, chain, result,
          quiet, tainted, metadataReads, data, fetches, attempts, cacheResult,
          callers>>

----------------------------------------------------------------------------
(* Bounds and the small universe the inputs are drawn from.                *)

MaxTracked == 3
MaxSnaps == 3
MaxBalance == 1

Addrs == {"T1", "T2"}
Accts == {"X", "Y"}
Names == {"", "n"}
Balance == 0 .. MaxBalance

Range(s) == {s[i] : i \in DOMAIN s}
Last(s) == s[Len(s)]
IsPrefix(s, t) == Len(s) <= Len(t) /\ SubSeq(t, 1, Len(s)) = s

----------------------------------------------------------------------------
(* The chain-data reader's immutable token metadata (name(), symbol(),    *)
(* decimals() of the contract at an address).                              *)

ChainName(addr) == IF addr = "T1" THEN "Token One" ELSE "Token Two"
ChainSymbol(addr) == IF addr = "T1" THEN "ONE" ELSE "TWO"
ChainDecimals(addr) == IF addr = "T1" THEN 1 ELSE 2

----------------------------------------------------------------------------
(* Python values whose type matters to a comparison.                       *)

PyStr(num, den) == [type |-> "str", num |-> num, den |-> den]
PyTuple1(x) == [type |-> "tuple", item |-> x]

\* Python's `x == 0` for an int literal: False for a value of another type.
PyEqualsZero(x) == x.type = "int" /\ x.num = 0

Abs(n) == IF n < 0 THEN -n ELSE n

RECURSIVE Pow10(_)
Pow10(d) == IF d = 0 THEN 1 ELSE 10 * Pow10(d - 1)

RECURSIVE Gcd(_, _)
Gcd(a, b) == IF b = 0 THEN a ELSE Gcd(b, a % b)

\* val: "{:,.18f}".format(amount / 10 ** decimals).  The text is a function
\* of the quotient; it is kept as a str carrying the quotient in lowest
\* terms (0 gives "0.000000000000000000" for every decimals).
val(amount, decimals) ==
    LET den == Pow10(decimals)
        g == Gcd(Abs(amount), den)
    IN PyStr(amount \div g, den \div g)

----------------------------------------------------------------------------
(* Token objects.  A Token wrapper is an object of its own (obj is the     *)
(* position of the tracked list it was created for); a brownie Contract    *)
(* handle compares equal to any handle of the same address (obj = 0).      *)

Token(addr, id) == [form |-> "Token", addr |-> addr, obj |-> id]
Contract(addr) == [form |-> "Contract", addr |-> addr, obj |-> 0]

\* token.decimals: the int fetched by Token.__init__; on a bare Contract
\* the attribute is the contract's decimals method, not a number.
TokenDecimals(token) ==
    IF token.form = "Token"
    THEN [type |-> "int", num |-> ChainDecimals(token.addr)]
    ELSE [type |-> "method", num |-> 0]

TokenSymbol(token) ==
    IF token.form = "Token"
    THEN [type |-> "str", text |-> ChainSymbol(token.addr)]
    ELSE [type |-> "method", text |-> ""]

\* Token.__hash__ is hash(address); Token.__eq__ against another Token
\* calls `other == self`, which calls back: comparing two distinct Token
\* objects of one address never returns (RecursionError).
TokenEqRecurses(a, b) ==
    a.form = "Token" /\ b.form = "Token" /\ a.addr = b.addr /\ a # b

----------------------------------------------------------------------------
(* Balances: the two-level dict token -> account -> value, kept as a       *)
(* function on (token, account) pairs.                                     *)

EmptyBalances == [k \in {} |-> 0]
StoreTokens(store) == {k[1] : k \in DOMAIN store}

\* `token not in self.balances` raises when the lookup has to compare the
\* token with a different Token object of the same address.
SetRaises(store, token) ==
    \E t \in StoreTokens(store) : TokenEqRecurses(t, token)

\* As if set did `self.balances[token] = {}` every time.
BalancesSet_ResetsToken(store, token, account, value) ==
    [k \in {j \in DOMAIN store : j[1] # token} \cup {<<token, account>>} |->
        IF k = <<token, account>> THEN value ELSE store[k]]

BalancesSet(store, token, account, value) ==
    [k \in DOMAIN store \cup {<<token, account>>} |->
        IF k = <<token, account>> THEN value ELSE store[k]]

----------------------------------------------------------------------------
(* BalanceSnapshotter                                                       *)

\* What the caller got from its last call: None, a snap or a table when the
\* call returned, the error when it raised.
Snapshot(name, store) == [name |-> name, balances |-> store]
NoResult ==
    [op |-> "none", outcome |-> "none", error |-> "none",
     snap |-> Snapshot("", EmptyBalances), table |-> {}]
ReturnedNone(op) == [NoResult EXCEPT !.op = op, !.outcome = "returned"]
ReturnedSnapshot(op, s) ==
    [NoResult EXCEPT !.op = op, !.outcome = "returned", !.snap = s]
ReturnedTable(op, t) ==
    [NoResult EXCEPT !.op = op, !.outcome = "returned", !.table = t]
Raised(op, e) == [NoResult EXCEPT !.op = op, !.outcome = "raised", !.error = e]

Min(a, b) == IF a < b THEN a ELSE b

\* The chain is the environment: two of its balances move (between 0 and
\* MaxBalance), the other two stay at 1.
Volatile == {<<"T1", "X">>, <<"T2", "Y">>}
InitChain == [p \in Addrs \X Accts |-> IF p \in Volatile THEN 0 ELSE 1]

\* BalanceSnapshotter.__init__: every given token is wrapped in a Token,
\* strings are resolved first; snaps starts empty, the event clear.
InitTokens == {<<>>} \cup {<<Token(a, 1)>> : a \in Addrs}
InitAccounts == {<<>>} \cup {<<x>> : x \in Accts}

EngineInit ==
    /\ tokens \in InitTokens
    /\ accounts \in InitAccounts
    /\ snaps = <<>>
    /\ balance_event = FALSE
    /\ pc = "idle"
    /\ path = "none"
    /\ taskState = "none"
    /\ snapName = ""
    /\ pending = {}
    /\ failed = "none"
    /\ balances = EmptyBalances
    /\ returned = EmptyBalances
    /\ chain = InitChain
    /\ result = NoResult
    /\ quiet = 0
    /\ tainted = FALSE
    /\ metadataReads = Len(tokens)

\* The chain moves on: one balance changes.  A balance is followed only once
\* the engine can ask for it.
TrackedPairs == {<<t.addr, a>> : t \in Range(tokens), a \in Range(accounts)}

ChainChange ==
    /\ \E p \in TrackedPairs \cap Volatile, v \in Balance :
          /\ v # chain[p]
          /\ chain' = [chain EXCEPT ![p] = v]
    /\ quiet' = 0
    /\ tainted' = (pc # "idle")
    /\ UNCHANGED cacheVars
    /\ UNCHANGED metadataReads
    /\ UNCHANGED <<tokens, accounts, snaps, balance_event, pc, path,
                   taskState, snapName, pending, failed, balances, returned,
                   result>>

\* What add_token reads of the token's metadata: Token.__init__ calls
\* name(), symbol() and decimals() once when it wraps a str; a handle is
\* not wrapped and nothing is read.
\* As if the wrapper left the metadata to be read when it is first needed.
TokenInitReads_Lazy(form) == 0
TokenInitReads(form) == IF form = "str" THEN 1 ELSE 0

\* add_token(token): a str is resolved and wrapped in a Token (whose
\* constructor reads name, symbol and decimals from the chain and may
\* raise); anything else is appended as it is.
add_token(addr, form, ok) ==
    /\ pc = "idle"
    /\ Len(tokens) + Len(accounts) < MaxTracked
    /\ IF form = "str"
       THEN IF ok
            THEN /\ tokens' = Append(tokens, Token(addr, Len(tokens) + 1))
                 /\ metadataReads' = metadataReads + TokenInitReads(form)
                 /\ result' = ReturnedNone("add_token")
                 /\ quiet' = 0
            ELSE /\ result' = Raised("add_token", "ResolutionError")
                 /\ UNCHANGED <<tokens, quiet, metadataReads>>
       ELSE /\ tokens' = Append(tokens, Contract(addr))
            /\ metadataReads' = metadataReads + TokenInitReads(form)
            /\ result' = ReturnedNone("add_token")
            /\ quiet' = 0
    /\ UNCHANGED cacheVars
    /\ UNCHANGED <<accounts, snaps, balance_event, pc, path, taskState,
                   snapName, pending, failed, balances, returned, chain,
                   tainted>>

AddToken == \E addr \in Addrs, form \in {"str", "Contract"}, ok \in BOOLEAN :
                add_token(addr, form, ok)

\* add_account(account): a str is resolved with accounts.at(force=True);
\* either way the account of that address is appended.
\* As if add_account started the history over.
add_account_ClearsSnaps(acct) ==
    /\ pc = "idle"
    /\ Len(tokens) + Len(accounts) < MaxTracked
    /\ accounts' = Append(accounts, acct)
    /\ snaps' = <<>>
    /\ result' = ReturnedNone("add_account")
    /\ quiet' = 0
    /\ UNCHANGED cacheVars
    /\ UNCHANGED metadataReads
    /\ UNCHANGED <<tokens, balance_event, pc, path, taskState,
                   snapName, pending, failed, balances, returned, chain,
                   tainted>>

\* As if add_account put the account in place of the list.
add_account_Replaces(acct) ==
    /\ pc = "idle"
    /\ Len(tokens) + Len(accounts) < MaxTracked
    /\ accounts' = <<acct>>
    /\ result' = ReturnedNone("add_account")
    /\ quiet' = 0
    /\ UNCHANGED cacheVars
    /\ UNCHANGED metadataReads
    /\ UNCHANGED <<tokens, snaps, balance_event, pc, path, taskState,
                   snapName, pending, failed, balances, returned, chain,
                   tainted>>

add_account(acct) ==
    /\ pc = "idle"
    /\ Len(tokens) + Len(accounts) < MaxTracked
    /\ accounts' = Append(accounts, acct)
    /\ result' = ReturnedNone("add_account")
    /\ quiet' = 0
    /\ UNCHANGED cacheVars
    /\ UNCHANGED metadataReads
    /\ UNCHANGED <<tokens, snaps, balance_event, pc, path, taskState,
                   snapName, pending, failed, balances, returned, chain,
                   tainted>>

AddAccount == \E acct \in Accts : add_account(acct)

\* snap(name): hands _async_take_snapshot(name) to the loop, with
\* run_until_complete when the loop is idle and with create_task when it is
\* running (the caller being on the loop's thread or on another one), then
\* waits for balance_event.
SnapPaths == {"run_until_complete", "create_task_loop_thread",
              "create_task_other_thread"}

snap(name, how) ==
    /\ pc = "idle"
    /\ Len(snaps) < MaxSnaps
    /\ snapName' = name
    /\ path' = how
    /\ taskState' = "scheduled"
    /\ pc' = IF how = "run_until_complete" THEN "run_until_complete" ELSE "spin"
    /\ pending' = {}
    /\ failed' = "none"
    /\ balances' = EmptyBalances
    /\ returned' = EmptyBalances
    /\ tainted' = FALSE
    /\ result' = NoResult
    /\ UNCHANGED cacheVars
    /\ UNCHANGED metadataReads
    /\ UNCHANGED <<tokens, accounts, snaps, balance_event, chain, quiet>>

SnapCall == \E name \in Names, how \in SnapPaths : snap(name, how)

\* _async_take_snapshot, up to the gather: a fresh Balances and one
\* set_balance coroutine per (token, account) of the lists as they are now.
\* A task created from the loop's own thread never gets to run: that thread
\* is in snap's wait loop.
Futures == (1 .. Len(tokens)) \X (1 .. Len(accounts))

TaskStart ==
    /\ taskState = "scheduled"
    /\ path # "create_task_loop_thread"
    /\ taskState' = "running"
    /\ pending' = Futures
    /\ UNCHANGED cacheVars
    /\ UNCHANGED metadataReads
    /\ UNCHANGED <<tokens, accounts, snaps, balance_event, pc, path,
                   snapName, failed, balances, returned, chain, result,
                   quiet, tainted>>

\* What a set_balance coroutine raises: the reader's error when balanceOf
\* fails, else the RecursionError of Balances.set comparing the token with
\* another Token object of its address.
SetBalanceError(store, token, ok) ==
    IF ~ok THEN "AcquisitionError"
    ELSE IF SetRaises(store, token) THEN "RecursionError"
    ELSE "none"

\* One set_balance coroutine runs: balanceOf, then Balances.set.  The loop
\* may run the coroutines of the gather in any order.  Once one of them has
\* raised the gather is bound to raise; the coroutines still to run write to
\* a Balances that will never be appended, and are not followed further.
set_balance(q, ok) ==
    LET token == tokens[q[1]]
        account == accounts[q[2]]
        value == chain[<<token.addr, account>>]
    IN /\ taskState = "running"
       /\ q \in pending
       /\ failed = "none"
       /\ IF ok /\ ~SetRaises(balances, token)
          THEN /\ balances' = BalancesSet(balances, token, account, value)
               /\ returned' = [r \in DOMAIN returned \cup {q} |->
                                   IF r = q THEN value ELSE returned[r]]
               /\ pending' = pending \ {q}
               /\ UNCHANGED failed
          ELSE /\ failed' = SetBalanceError(balances, token, ok)
               /\ pending' = {}
               /\ balances' = EmptyBalances
               /\ returned' = EmptyBalances
       /\ UNCHANGED cacheVars
       /\ UNCHANGED metadataReads
       /\ UNCHANGED <<tokens, accounts, snaps, balance_event, pc, path,
                      taskState, snapName, chain, result, quiet, tainted>>

SetBalance == \E q \in pending, ok \in BOOLEAN : set_balance(q, ok)

\* self.snaps.append({"name": name, "balances": balances})
PublishSnap_Front(history, snapshot) == <<snapshot>> \o history
PublishSnap(history, snapshot) == Append(history, snapshot)

\* The gather returned: the snap is appended and the event set.
\* As if the coroutine went on without awaiting the gather.
TaskFinish_NoGather ==
    /\ taskState = "running"
    /\ failed = "none"
    /\ snaps' = PublishSnap(snaps, Snapshot(snapName, balances))
    /\ balance_event' = TRUE
    /\ taskState' = "done"
    /\ pc' = "spin"
    /\ balances' = EmptyBalances
    /\ quiet' = IF tainted THEN 0 ELSE Min(quiet + 1, 2)
    /\ tainted' = FALSE
    /\ UNCHANGED cacheVars
    /\ UNCHANGED metadataReads
    /\ UNCHANGED <<tokens, accounts, path, snapName, pending, failed,
                   returned, chain, result>>

TaskFinish ==
    /\ taskState = "running"
    /\ pending = {}
    /\ failed = "none"
    /\ snaps' = PublishSnap(snaps, Snapshot(snapName, balances))
    /\ balance_event' = TRUE
    /\ taskState' = "done"
    /\ pc' = "spin"
    /\ balances' = EmptyBalances
    /\ quiet' = IF tainted THEN 0 ELSE Min(quiet + 1, 2)
    /\ tainted' = FALSE
    /\ UNCHANGED cacheVars
    /\ UNCHANGED metadataReads
    /\ UNCHANGED <<tokens, accounts, path, snapName, pending, failed,
                   returned, chain, result>>

\* The gather raised what a set_balance raised: the coroutine ends with the
\* exception.  run_until_complete re-raises it in snap; a task made with
\* create_task keeps it, and nobody asks for it.  What is left of the batch
\* writes to a Balances nobody holds any more.
TaskRaise ==
    /\ taskState = "running"
    /\ failed # "none"
    /\ IF path = "run_until_complete"
       THEN /\ pc' = "idle"
            /\ result' = Raised("snap", failed)
            /\ taskState' = "none"
            /\ path' = "none"
            /\ snapName' = ""
            /\ failed' = "none"
       ELSE /\ taskState' = "failed"
            /\ UNCHANGED <<pc, result, path, snapName, failed>>
    /\ UNCHANGED cacheVars
    /\ UNCHANGED metadataReads
    /\ UNCHANGED <<tokens, accounts, snaps, balance_event, pending,
                   balances, returned, chain, quiet, tainted>>

\* `while not self.balance_event.is_set(): pass`
Spin ==
    /\ pc = "spin"
    /\ ~balance_event
    /\ UNCHANGED vars

\* snap = self.snaps[-1]
ReturnedSnap_First == snaps[1]
ReturnedSnap == snaps[Len(snaps)]

\* The event is set: it is cleared and snaps[-1] returned.
SnapReturn ==
    /\ pc = "spin"
    /\ balance_event
    /\ balance_event' = FALSE
    /\ pc' = "idle"
    /\ result' = ReturnedSnapshot("snap", ReturnedSnap)
    /\ taskState' = "none"
    /\ path' = "none"
    /\ snapName' = ""
    /\ returned' = EmptyBalances
    /\ UNCHANGED cacheVars
    /\ UNCHANGED metadataReads
    /\ UNCHANGED <<tokens, accounts, snaps, pending, failed, balances,
                   chain, quiet, tainted>>

\* diff_last_two: the body of the two loops for one (token, account) of
\* `before`.  after[token][account] raises KeyError for a missing pair (and
\* never returns when the lookup compares two Token objects of one address);
\* val raises TypeError on decimals that are no number.
DiffPairError(after, k) ==
    IF \E t \in StoreTokens(after) : TokenEqRecurses(t, k[1])
    THEN "RecursionError"
    ELSE IF k \notin DOMAIN after
    THEN "KeyError"
    ELSE IF TokenDecimals(k[1]).type # "int"
    THEN "TypeError"
    ELSE "none"

\* amount = (val(after[token][account] - value, decimals=token.decimals),)
DiffAmount(before, after, k) ==
    PyTuple1(val(after[k] - before[k], TokenDecimals(k[1]).num))

\* `if amount == 0: continue`
DiffSkips(amount) == PyEqualsZero(amount)

DiffRow(before, after, k) ==
    [asset |-> TokenSymbol(k[1]), account |-> k[2],
     balance |-> DiffAmount(before, after, k)]

\* The rows handed to tabulate (their order is the dicts' insertion order,
\* which the gather decides; the rows are kept as a set).
DiffTable(before, after) ==
    {DiffRow(before, after, k) :
        k \in {j \in DOMAIN before : ~DiffSkips(DiffAmount(before, after, j))}}

\* if len(self.snaps) < 2
InsufficientHistory_OffByOne == Len(snaps) <= 2
InsufficientHistory == Len(snaps) < 2

BeforeSnap == snaps[Len(snaps) - 1]
AfterSnap == snaps[Len(snaps)]

diff_last_two ==
    /\ pc = "idle"
    /\ IF InsufficientHistory
       THEN result' = Raised("diff_last_two", "Insufficient snaps")
       ELSE LET before == BeforeSnap.balances
                after == AfterSnap.balances
                bad == {k \in DOMAIN before : DiffPairError(after, k) # "none"}
            IN IF bad # {}
               THEN \E k \in bad :
                        result' = Raised("diff_last_two", DiffPairError(after, k))
               ELSE result' = ReturnedTable("diff_last_two", DiffTable(before, after))
    /\ UNCHANGED cacheVars
    /\ UNCHANGED metadataReads
    /\ UNCHANGED <<tokens, accounts, snaps, balance_event, pc, path,
                   taskState, snapName, pending, failed, balances, returned,
                   chain, quiet, tainted>>

\* Balances.print, called on the store of a snap of the history (snap does
\* so itself on the one it returns when print_snap is set).  For every
\* (token, account): amount = val(value, decimals=token.decimals), a str;
\* `if amount == 0: continue`; else the row [account.address, amount,
\* token.symbol].
PrintPairError(k) ==
    IF TokenDecimals(k[1]).type # "int" THEN "TypeError" ELSE "none"

PrintAmount(store, k) == val(store[k], TokenDecimals(k[1]).num)

\* `if amount == 0: continue`, amount being the str val returned.
PrintSkips(store, k) == PyEqualsZero(PrintAmount(store, k))

PrintRow(store, k) ==
    [asset |-> TokenSymbol(k[1]), account |-> k[2],
     balance |-> PrintAmount(store, k)]

PrintTable(store) ==
    {PrintRow(store, k) : k \in {j \in DOMAIN store : ~PrintSkips(store, j)}}

ReturnedPrint(s, t) ==
    [NoResult EXCEPT !.op = "print", !.outcome = "returned", !.snap = s,
                     !.table = t]
RaisedPrint(s, e) ==
    [NoResult EXCEPT !.op = "print", !.outcome = "raised", !.snap = s,
                     !.error = e]

balances_print(i) ==
    LET store == snaps[i].balances
        bad == {k \in DOMAIN store : PrintPairError(k) # "none"}
    IN /\ pc = "idle"
       /\ IF bad # {}
          THEN \E k \in bad : result' = RaisedPrint(snaps[i], PrintPairError(k))
          ELSE result' = ReturnedPrint(snaps[i], PrintTable(store))
       /\ UNCHANGED cacheVars
       /\ UNCHANGED metadataReads
       /\ UNCHANGED <<tokens, accounts, snaps, balance_event, pc, path,
                      taskState, snapName, pending, failed, balances,
                      returned, chain, quiet, tainted>>

BalancesPrint == \E i \in DOMAIN snaps : balances_print(i)

Next ==
    \/ ChainChange
    \/ AddToken
    \/ AddAccount
    \/ SnapCall
    \/ TaskStart
    \/ SetBalance
    \/ TaskFinish
    \/ TaskRaise
    \/ Spin
    \/ SnapReturn
    \/ diff_last_two
    \/ BalancesPrint

----------------------------------------------------------------------------
(* TokenData                                                               *)

\* An address string names an address in its checksummed spelling or in
\* another one (lower case, say).  interface.IERC20(s) is the contract at
\* that address, and a contract's .address is the checksummed spelling.
AddrString(addr, checksummed) == [addr |-> addr, checksummed |-> checksummed]
Checksum(s) == AddrString(s.addr, TRUE)
AddrStrings == {AddrString(a, c) : a \in Addrs, c \in BOOLEAN}

StrToken(s) == [kind |-> "str", address |-> s]
ContractToken(s) == [kind |-> "Contract", address |-> Checksum(s)]
TokenInputs == {StrToken(s) : s \in AddrStrings}
                   \cup {ContractToken(s) : s \in AddrStrings}

TokenTriple(addr) ==
    [name |-> ChainName(addr), symbol |-> ChainSymbol(addr),
     decimals |-> ChainDecimals(addr)]

MaxFetches == 2
MaxAttempts == 3
NumCallers == 2
Callers == 1 .. NumCallers

\* self.data: a dict from address strings to triples.
EmptyData == [k \in {} |-> 0]
DataSet(d, key, triple) ==
    [k \in DOMAIN d \cup {key} |-> IF k = key THEN triple ELSE d[k]]

CacheReturned(op, token, v) ==
    [op |-> op, outcome |-> "returned", value |-> v, token |-> token]
CacheRaised(op, token, e) ==
    [op |-> op, outcome |-> "raised", value |-> e, token |-> token]
NoCacheResult ==
    [op |-> "none", outcome |-> "none", value |-> "none", token |-> "none"]

\* A caller outside fetch_token_data, or inside it with the value of its
\* `token` parameter: past the presence test and about to fetch ("fetch"),
\* or about to return after a miss or after a hit.
IdleCaller == [pc |-> "idle", token |-> StrToken(AddrString("T1", TRUE))]
InCall(at, token) == [pc |-> at, token |-> token]

CacheInit ==
    /\ data = EmptyData
    /\ fetches = [a \in Addrs |-> 0]
    /\ attempts = [a \in Addrs |-> 0]
    /\ cacheResult = NoCacheResult
    /\ callers = [c \in Callers |-> IdleCaller]

\* `address = token.address if isinstance(token, Contract) else token`
LookupKey(token) == token.address

\* `if address not in self.data`
CacheMiss(token) == LookupKey(token) \notin DOMAIN data

\* The key of `self.data[token.address]`: the contract's address after a
\* miss (a str has been replaced by its contract by then).
StoreKey(token) == Checksum(token.address)

\* `return self.data[token.address]`: after a hit `token` is what the caller
\* passed, and a str has no attribute `address`.
ReturnRaises(token, miss) == ~miss /\ token.kind = "str"

\* self.data when name(), symbol() or decimals() (or interface.IERC20) has
\* raised: the dict display is evaluated before the subscript is assigned,
\* so nothing has been stored.
\* As if the entry were created first and filled field by field.
FailedFetchData_Partial(d, key, triple) ==
    DataSet(d, key, [triple EXCEPT !.symbol = "", !.decimals = 0])
FailedFetchData(d, key, triple) == d

\* fetch_token_data(token), followed by the subscript get_name, get_symbol
\* and get_decimals apply to what it returns (field = "all" for
\* fetch_token_data itself).  `ok` is whether the chain answers name(),
\* symbol() and decimals().
fetch_token_data(op, field, token, ok) ==
    LET miss == CacheMiss(token)
        addr == token.address.addr
        triple == TokenTriple(addr)
        cached == data[StoreKey(token)]
    IN /\ IF miss
          THEN /\ fetches[addr] < MaxFetches
               /\ attempts[addr] < MaxAttempts
               /\ attempts' = [attempts EXCEPT ![addr] = @ + 1]
               /\ IF ok
                  THEN /\ data' = DataSet(data, StoreKey(token), triple)
                       /\ fetches' = [fetches EXCEPT ![addr] = @ + 1]
                       /\ cacheResult' =
                            CacheReturned(op, token,
                                IF field = "all" THEN triple ELSE triple[field])
                  ELSE /\ data' = FailedFetchData(data, StoreKey(token), triple)
                       /\ cacheResult' = CacheRaised(op, token, "ResolutionError")
                       /\ UNCHANGED fetches
          ELSE /\ IF ReturnRaises(token, miss)
                  THEN cacheResult' = CacheRaised(op, token, "AttributeError")
                  ELSE cacheResult' =
                         CacheReturned(op, token,
                             IF field = "all" THEN cached ELSE cached[field])
               /\ UNCHANGED <<data, fetches, attempts>>
       /\ UNCHANGED callers
       /\ UNCHANGED engineVars

CacheOps == {<<"fetch_token_data", "all">>, <<"get_name", "name">>,
             <<"get_symbol", "symbol">>, <<"get_decimals", "decimals">>}

CacheCall ==
    \E o \in CacheOps, token \in TokenInputs, ok \in BOOLEAN :
        fetch_token_data(o[1], o[2], token, ok)

CacheNext == CacheCall

\* fetch_token_data called from several threads at once.  Nothing in
\* TokenData holds a lock, and the remote calls of the fetch give the other
\* threads time to run: a call is the presence test, then (after a miss) the
\* fetch and the store, then the return.
ConcCheck(c, token) ==
    /\ callers[c].pc = "idle"
    /\ callers' = [callers EXCEPT ![c] =
                       InCall(IF CacheMiss(token) THEN "fetch" ELSE "return_hit",
                              token)]
    /\ UNCHANGED <<data, fetches, attempts, cacheResult>>
    /\ UNCHANGED engineVars

ConcFetch(c, ok) ==
    LET token == callers[c].token
        addr == token.address.addr
        triple == TokenTriple(addr)
    IN /\ callers[c].pc = "fetch"
       /\ fetches[addr] < MaxFetches
       /\ attempts[addr] < MaxAttempts
       /\ attempts' = [attempts EXCEPT ![addr] = @ + 1]
       /\ IF ok
          THEN /\ data' = DataSet(data, StoreKey(token), triple)
               /\ fetches' = [fetches EXCEPT ![addr] = @ + 1]
               /\ callers' = [callers EXCEPT ![c] = InCall("return_miss", token)]
               /\ UNCHANGED cacheResult
          ELSE /\ data' = FailedFetchData(data, StoreKey(token), triple)
               /\ cacheResult' =
                    CacheRaised("fetch_token_data", token, "ResolutionError")
               /\ callers' = [callers EXCEPT ![c] = IdleCaller]
               /\ UNCHANGED fetches
       /\ UNCHANGED engineVars

ConcReturn(c) ==
    LET token == callers[c].token
        miss == callers[c].pc = "return_miss"
    IN /\ callers[c].pc \in {"return_miss", "return_hit"}
       /\ IF ReturnRaises(token, miss)
          THEN cacheResult' =
                 CacheRaised("fetch_token_data", token, "AttributeError")
          ELSE cacheResult' =
                 CacheReturned("fetch_token_data", token, data[StoreKey(token)])
       /\ callers' = [callers EXCEPT ![c] = IdleCaller]
       /\ UNCHANGED <<data, fetches, attempts>>
       /\ UNCHANGED engineVars

ConcCheckCall == \E c \in Callers, token \in TokenInputs : ConcCheck(c, token)
ConcFetchCall == \E c \in Callers, ok \in BOOLEAN : ConcFetch(c, ok)
ConcReturnCall == \E c \in Callers : ConcReturn(c)

ConcNext ==
    \/ ConcCheckCall
    \/ ConcFetchCall
    \/ ConcReturnCall

Init == EngineInit /\ CacheInit

Spec == Init /\ [][Next]_vars

CacheSpec == Init /\ [][CacheNext]_vars

ConcSpec == Init /\ [][ConcNext]_vars

----------------------------------------------------------------------------
(* Properties                                                               *)

\* r is op having raised e / having returned.
HasRaised(r, op, e) == r.op = op /\ r.outcome = "raised" /\ r.error = e
HasReturned(r, op) == r.op = op /\ r.outcome = "returned"

\* The keys snap() asks for: every tracked token with every tracked account.
CrossProduct == {<<tokens[q[1]], accounts[q[2]]>> : q \in Futures}

NoDuplicates(seq) == \A i, j \in DOMAIN seq : seq[i] = seq[j] => i = j

\* C1: if any balance query of a snap() call fails, the call fails with an
\* error and the history is what it was before the call.  Stated on the step
\* that ends the coroutine of a batch in which a query failed: snap raises
\* to its caller there and snaps is unchanged.
C1_FailedQueryFailsCall ==
    [][(taskState = "running" /\ failed # "none" /\ taskState' # "running")
         => /\ pc' = "idle"
            /\ HasRaised(result', "snap", failed)
            /\ snaps' = snaps]_vars

\* C2: a successful snap() publishes a store whose keys are exactly the
\* tracked tokens x the tracked accounts (|T|*|A| entries when neither list
\* repeats an element), each value being what balanceOf returned for that
\* pair, in whatever order the queries ran.
C2_StoreIsCrossProduct ==
    taskState = "done" =>
        LET store == Last(snaps).balances
        IN /\ DOMAIN store = CrossProduct
           /\ DOMAIN returned = Futures
           /\ \A k \in DOMAIN store :
                 \E q \in Futures : /\ <<tokens[q[1]], accounts[q[2]]>> = k
                                    /\ store[k] = returned[q]
           /\ (NoDuplicates(tokens) /\ NoDuplicates(accounts))
                 => Cardinality(DOMAIN store) = Len(tokens) * Len(accounts)

\* A snap of one token and two accounts was published, holding two values.
C2_Witness ==
    /\ taskState = "done"
    /\ Len(tokens) = 1
    /\ Len(accounts) = 2
    /\ Cardinality(DOMAIN Last(snaps).balances) = 2
    /\ \E k, l \in DOMAIN Last(snaps).balances :
          Last(snaps).balances[k] # Last(snaps).balances[l]

\* C3: a successful snap(name) grows the history by exactly one element, at
\* the end, carrying the name given and the store just gathered, and what
\* snap returns is that element, appended by this very call.
C3_SnapAppendsAndReturnsNew ==
    [][/\ (snaps' # snaps) =>
             /\ taskState = "running" /\ taskState' = "done"
             /\ Len(snaps') = Len(snaps) + 1
             /\ SubSeq(snaps', 1, Len(snaps)) = snaps
             /\ Last(snaps') = Snapshot(snapName, balances)
       /\ (HasReturned(result', "snap") /\ pc = "spin" /\ pc' = "idle") =>
             /\ taskState = "done"
             /\ snaps' = snaps
             /\ result'.snap = Last(snaps)
             /\ result'.snap.name = snapName]_vars

\* The second snap of a history was returned, named, and differs from the
\* first.
C3_Witness ==
    /\ HasReturned(result, "snap")
    /\ Len(snaps) = 2
    /\ result.snap = snaps[2]
    /\ result.snap.name = "n"
    /\ snaps[1] # snaps[2]

\* C4: the history is append-only: whatever add_token, add_account, snap and
\* diff_last_two do, the history before a step is a prefix of the history
\* after it (so no published snap's name or store ever changes).
C4_HistoryAppendOnly == [][IsPrefix(snaps, snaps')]_vars

\* Three snaps were taken, a token added and the last two compared.
C4_Witness ==
    /\ Len(snaps) = 3
    /\ snaps[1] # snaps[2]
    /\ Len(tokens) = 2
    /\ result.op = "diff_last_two"

\* C5: add_token and add_account leave every published snap as it was, and
\* the token or account they add, unless it was tracked already, is in no
\* published store.
C5_AddsLeaveSnapsAlone ==
    [][/\ (tokens' # tokens) =>
             /\ snaps' = snaps
             /\ Last(tokens') \notin Range(tokens) =>
                   \A i \in DOMAIN snaps' :
                       Last(tokens') \notin StoreTokens(snaps'[i].balances)
       /\ (accounts' # accounts) =>
             /\ snaps' = snaps
             /\ Last(accounts') \notin Range(accounts) =>
                   \A i \in DOMAIN snaps' :
                       \A k \in DOMAIN snaps'[i].balances :
                           k[2] # Last(accounts')]_vars

\* An account was added after a first snap, and a second snap has it while
\* the first has not.
C5_Witness ==
    /\ Len(snaps) = 2
    /\ Len(accounts) = 2
    /\ \E k \in DOMAIN snaps[2].balances : k[2] = accounts[2]
    /\ \A k \in DOMAIN snaps[1].balances : k[2] # accounts[2]
    /\ DOMAIN snaps[1].balances # {}

\* C6: diff_last_two with 0 or 1 snaps raises the insufficient-history
\* error, at once and leaving the engine as it was; with 2 or more snaps it
\* does not raise that error.
C6_InsufficientHistory ==
    [][(result'.op = "diff_last_two" /\ result.op # "diff_last_two") =>
          /\ (Len(snaps) < 2) <=>
                HasRaised(result', "diff_last_two", "Insufficient snaps")
          /\ pc = "idle" /\ pc' = "idle"
          /\ UNCHANGED <<tokens, accounts, snaps, balance_event, taskState,
                         pending, balances, chain>>]_vars

\* The error was raised with one snap in the history.
C6_Witness ==
    /\ HasRaised(result, "diff_last_two", "Insufficient snaps")
    /\ Len(snaps) = 1

\* The raw difference a row of the table stands for: the row's amount is
\* the str of diff / 10^decimals.
RowMatches(row, token, account, diff) ==
    /\ row.account = account
    /\ row.asset.type = "str"
    /\ row.asset.text = ChainSymbol(token.addr)
    /\ row.balance.type = "tuple"
    /\ row.balance.item.num * Pow10(ChainDecimals(token.addr))
          = diff * row.balance.item.den

RawDiff(k) == AfterSnap.balances[k] - BeforeSnap.balances[k]

\* C7: diff_last_two compares the snaps at the last two positions of the
\* history, whatever their names, and for every (token, account) of the
\* earlier one computes after[token][account] - before[token][account]:
\* with two snaps or more it returns a table, every row of which is such a
\* difference, and every pair with a non-zero difference has its row.
C7_DiffOfLastTwo ==
    (result.op = "diff_last_two" /\ Len(snaps) >= 2) =>
        /\ result.outcome = "returned"
        /\ \A row \in result.table :
              \E k \in DOMAIN BeforeSnap.balances :
                  RowMatches(row, k[1], k[2], RawDiff(k))
        /\ \A k \in DOMAIN BeforeSnap.balances :
              RawDiff(k) # 0 =>
                  \E row \in result.table :
                      RowMatches(row, k[1], k[2], RawDiff(k))

\* C8: the table of diff_last_two has a row for a pair if and only if the
\* pair's difference between the last two snaps is not zero.
C8_ZeroRowsOmitted ==
    HasReturned(result, "diff_last_two") =>
        \A k \in DOMAIN BeforeSnap.balances :
            (\E row \in result.table :
                 RowMatches(row, k[1], k[2], RawDiff(k)))
                <=> RawDiff(k) # 0

\* C9: two snaps taken with no balance change and no addition in between
\* differ in no pair, and diff_last_two then gives a table with no rows.
C9_Idempotence ==
    (quiet = 2 /\ Len(snaps) >= 2) =>
        /\ BeforeSnap.balances = AfterSnap.balances
        /\ result.op = "diff_last_two" =>
              (HasReturned(result, "diff_last_two") /\ result.table = {})

\* C10: used sequentially, the cache fetches the metadata of an address at
\* most once, and every request made once the address has been fetched
\* returns the cached triple (or the field asked for).
C10_OneFetchPerAddress ==
    /\ \A a \in Addrs : fetches[a] <= 1
    /\ (cacheResult.op # "none" /\ fetches[cacheResult.token.address.addr] >= 1)
          => LET triple == TokenTriple(cacheResult.token.address.addr)
             IN /\ cacheResult.outcome = "returned"
                /\ cacheResult.op = "fetch_token_data"
                      => cacheResult.value = triple
                /\ cacheResult.op = "get_name"
                      => cacheResult.value = triple.name
                /\ cacheResult.op = "get_symbol"
                      => cacheResult.value = triple.symbol
                /\ cacheResult.op = "get_decimals"
                      => cacheResult.value = triple.decimals

\* C11: when the remote fetch of name, symbol or decimals fails, the call
\* raises, the cache is what it was before the call and holds nothing under
\* the address asked for, and the next call for that address goes to the
\* chain again: every call made for an argument whose last call failed
\* counts as a new attempt.
C11_FailureIsNotCached ==
    [][/\ (cacheResult'.outcome = "raised"
              /\ cacheResult'.value = "ResolutionError"
              /\ attempts' # attempts)
            => /\ data' = data
               /\ LookupKey(cacheResult'.token) \notin DOMAIN data'
               /\ StoreKey(cacheResult'.token) \in DOMAIN data'
                     => data'[StoreKey(cacheResult'.token)]
                            = TokenTriple(cacheResult'.token.address.addr)
       /\ (cacheResult.outcome = "raised"
              /\ cacheResult.value = "ResolutionError"
              /\ cacheResult'.token = cacheResult.token
              /\ <<data, fetches, attempts, cacheResult>>'
                    # <<data, fetches, attempts, cacheResult>>)
            => attempts'[cacheResult.token.address.addr]
                  = attempts[cacheResult.token.address.addr] + 1]_vars

\* A fetch failed, and the fetch made for the same address after it went
\* through and was stored.
C11_Witness ==
    /\ cacheResult.outcome = "returned"
    /\ attempts["T1"] = 2
    /\ fetches["T1"] = 1
    /\ cacheResult.token.address.addr = "T1"
    /\ DOMAIN data = {Checksum(AddrString("T1", TRUE))}

\* C12: when several callers resolve one address at the same time, one
\* remote fetch is made for it: no two calls in progress have both fetched
\* the metadata of the same address.
C12_SingleFlight ==
    \A c1, c2 \in Callers :
        (/\ callers[c1].pc = "return_miss"
         /\ callers[c2].pc = "return_miss"
         /\ callers[c1].token.address.addr = callers[c2].token.address.addr)
            => c1 = c2

\* C13 (as claimed): adding a token, by address string or by handle, reads
\* none of its metadata: name, symbol and decimals are left to be read when
\* a diff or a rendering first needs them.
C13_NoMetadataReadAtAdd ==
    [][tokens' # tokens => metadataReads' = metadataReads]_vars

\* C13 (amended): add_token given an address string reads name, symbol and
\* decimals at once, exactly one time, and given a handle reads nothing; no
\* other operation (snap and its queries, diff_last_two) reads any
\* metadata, so the reads made are one per Token wrapper in the list.
C13_MetadataReadAtAdd ==
    [][/\ (tokens' # tokens /\ Last(tokens').form = "Token")
            => metadataReads' = metadataReads + 1
       /\ (tokens' # tokens /\ Last(tokens').form = "Contract")
            => metadataReads' = metadataReads
       /\ tokens' = tokens => metadataReads' = metadataReads
       /\ metadataReads' =
             Cardinality({i \in DOMAIN tokens' : tokens'[i].form = "Token"})]_vars

\* Two address strings were added, two reads made, and a diff of two snaps
\* then gave rows scaled by the decimals read.
C13_Witness ==
    /\ Len(tokens) = 2
    /\ \A i \in DOMAIN tokens : tokens[i].form = "Token"
    /\ metadataReads = 2
    /\ HasReturned(result, "diff_last_two")
    /\ result.table # {}

\* C14: snap does not return before every balance query of its batch has
\* run: on the step that returns, the coroutine has finished, no query of
\* the batch is pending, balanceOf has answered for every (token, account)
\* of the lists, and the event is cleared; between calls the event is clear
\* and nothing is pending.
C14_ReturnsAfterAllQueries ==
    [][/\ (pc # "idle" /\ pc' = "idle" /\ HasReturned(result', "snap"))
            => /\ taskState = "done"
               /\ pending = {}
               /\ DOMAIN returned = Futures
               /\ DOMAIN result'.snap.balances = CrossProduct
               /\ balance_event
               /\ ~balance_event'
       /\ pc' = "idle" => (~balance_event' /\ pending' = {})]_vars

\* A snap of two queries has returned and the event is clear again.
C14_Witness ==
    /\ HasReturned(result, "snap")
    /\ pc = "idle"
    /\ Len(snaps) = 1
    /\ Len(tokens) = 2
    /\ Cardinality(DOMAIN result.snap.balances) = 2
    /\ ~balance_event

\* C15: add_token always appends, so an address added twice is tracked
\* twice, and a snap over such a list still succeeds: no query of a batch
\* fails unless the reader fails, and once every query has run each entry's
\* pair holds the value the reader returned.
C15_DuplicateTokenSnapshotSucceeds ==
    /\ failed \in {"none", "AcquisitionError"}
    /\ (taskState = "running" /\ pending = {} /\ failed = "none") =>
          \A q \in Futures :
              /\ <<tokens[q[1]], accounts[q[2]]>> \in DOMAIN balances
              /\ balances[<<tokens[q[1]], accounts[q[2]]>>] = returned[q]

\* C16: the lists only grow, so the keys of every snap of the history are
\* keys of every later snap, and diff_last_two never fails for a pair of the
\* earlier snap that the later one lacks.
C16_KeySetsGrow ==
    /\ \A i, j \in DOMAIN snaps :
          i <= j => DOMAIN snaps[i].balances \subseteq DOMAIN snaps[j].balances
    /\ ~HasRaised(result, "diff_last_two", "KeyError")

\* The later of two snaps has pairs the earlier has not, and their diff was
\* returned.
C16_Witness ==
    /\ Len(snaps) = 2
    /\ DOMAIN snaps[1].balances # {}
    /\ DOMAIN snaps[1].balances # DOMAIN snaps[2].balances
    /\ HasReturned(result, "diff_last_two")

\* C17: every element of the tracked-token list is a Token wrapper, carrying
\* the address, the symbol and the integer decimals, whether the token was
\* given as an address string or as a contract handle, so diff_last_two
\* never fails on a token's decimals.
C17_TokensAreWrapped ==
    /\ \A i \in DOMAIN tokens :
          /\ tokens[i].form = "Token"
          /\ TokenDecimals(tokens[i]).type = "int"
          /\ TokenSymbol(tokens[i]).type = "str"
    /\ ~HasRaised(result, "diff_last_two", "TypeError")

\* The row Balances.print gives a pair: the account, the token's symbol and
\* the str of value / 10^decimals.
PrintRowMatches(row, token, account, value) ==
    /\ row.account = account
    /\ row.asset.type = "str"
    /\ row.asset.text = ChainSymbol(token.addr)
    /\ row.balance.type = "str"
    /\ row.balance.num * Pow10(ChainDecimals(token.addr))
          = value * row.balance.den

\* C18: Balances.print gives a row for a (token, account) of the store if
\* and only if the balance stored for it is not zero.
C18_PrintOmitsZeroRows ==
    HasReturned(result, "print") =>
        \A k \in DOMAIN result.snap.balances :
            (\E row \in result.table :
                 PrintRowMatches(row, k[1], k[2], result.snap.balances[k]))
                <=> result.snap.balances[k] # 0

\* C19: a snap whose queries all complete returns, whether the coroutine
\* was run with run_until_complete or made a task of a loop already
\* running: while snap waits for the event, the coroutine that has to set
\* it is never kept from its next step by the wait itself.
C19_WaitNeverBlocksTask ==
    (pc = "spin" /\ ~balance_event /\ failed = "none")
        => ENABLED (TaskStart \/ SetBalance \/ TaskFinish)

====
